---- MODULE Spec2Model ----
(***************************************************************************)
(* Token lifecycle of the NextAuth route                                   *)
(* src/app/api/auth/[...nextauth]/route.ts: the jwt callback (sign-in,     *)
(* cache hit, refresh) and the session callback (projection to the         *)
(* browser).                                                               *)
(*                                                                         *)
(* JavaScript objects are functions from the keys they carry to values; a  *)
(* key whose value is undefined is not in the domain (this is also what    *)
(* the JSON encoding of the cookie and of the session payload keeps).      *)
(***************************************************************************)
EXTENDS Integers, FiniteSets, Sequences, TLC

\* ---------------------------------------------------------------- bounds
MinNow == 999
MaxNow == 1001

\* ------------------------------------------------------------- constants
MsPerSecond == 1000
RefreshAccessTokenError == "RefreshAccessTokenError"
Null == "null"

Readers == {"tabA", "tabB"}

\* Clock readings (ms)
Times == MinNow..MaxNow

\* ------------------------------------------------------ object helpers
Has(o, k) == k \in DOMAIN o

Put(o, k, v) == [x \in (DOMAIN o) \cup {k} |-> IF x = k THEN v ELSE o[x]]

Del(o, k) == [x \in (DOMAIN o) \ {k} |-> o[x]]

\* o.k = src.sk, where src.sk may be undefined
Assign(o, k, src, sk) == IF Has(src, sk) THEN Put(o, k, src[sk]) ELSE Del(o, k)

\* JavaScript truthiness of a string-valued and of a number-valued property
TruthyStr(o, k) == Has(o, k) /\ o[k] # "" /\ o[k] # Null

TruthyNum(o, k) == Has(o, k) /\ o[k] # 0

\* a ?? b : a is undefined or null
Nullish(o, k) == ~Has(o, k) \/ o[k] = Null

\* ------------------------------------------------------------- inputs
Ann == [id |-> "u1", name |-> "Ann", email |-> "ann@x", providerId |-> "p1"]
Bob == [id |-> "u2", name |-> "Bob", email |-> "bob@x"]

\* what the provider hands over at sign-in: <<user, account>>
SignIns ==
  { <<Ann, [provider |-> "oidc", access_token |-> "A1"]>>,
    <<Ann, [provider |-> "oidc", access_token |-> "A1", expires_at |-> 0,
            refresh_token |-> "R1", id_token |-> "I1"]>>,
    <<Ann, [provider |-> "oidc", access_token |-> "A1", expires_at |-> 1,
            refresh_token |-> "R1", id_token |-> "I1"]>>,
    <<Bob, [provider |-> "oidc", access_token |-> "A1", expires_at |-> 1]>> }

\* bodies of a successful token-endpoint response
OkBodies ==
  { [access_token |-> "A2", expires_in |-> 1],
    [access_token |-> "A2", expires_in |-> 0, refresh_token |-> "R2",
     id_token |-> "I2"],
    [access_token |-> "A2", expires_in |-> 1, refresh_token |-> Null,
     id_token |-> Null] }

ErrBodies == { [error |-> "invalid_grant"] }

\* outcomes of fetch(...) followed by response.json()
Responses ==
  { [kind |-> "network_error"] }
  \cup { [kind |-> "http", ok |-> TRUE, parsable |-> TRUE, body |-> b] :
           b \in OkBodies }
  \cup { [kind |-> "http", ok |-> FALSE, parsable |-> TRUE, body |-> b] :
           b \in ErrBodies }
  \cup { [kind |-> "http", ok |-> o, parsable |-> FALSE,
          body |-> [error |-> "html"]] : o \in BOOLEAN }

NoResponse == [kind |-> "none"]

\* ------------------------------------------------------------- state
VARIABLES
  now,       \* Date.now()
  signedIn,  \* a session cookie exists
  cookie,    \* the session record (JWT) stored in the cookie
  view,      \* the session payload last sent to the browser
  grant,     \* the {user, account} of the sign-in that wrote the cookie, while
             \* no session read has rewritten it
  pc,        \* per read: "idle", "awaitFetch", "done"
  tok,       \* per read: the token handed to the jwt callback (while awaiting)
  t0,        \* per read: Date.now() at the expiry check (while awaiting)
  calls,     \* per read: token-endpoint calls made
  resp,      \* per read: the response received
  path,      \* per read: branch taken
  threw,     \* per read: the callback rejected
  out,       \* per read: the token returned by the jwt callback
  \* the page (HomePage)
  variant,       \* which of the two copies of the page is built
  data,          \* useSession().data as last rendered
  errDep,        \* session?.error as of the last run of the error effect
  signInPending, \* signIn("oidc") was called and the browser has not left yet
  apiData,       \* useState apiData
  apiError,      \* useState apiError
  isLoading,     \* useState isLoading
  fpc,           \* fetchApiData: "idle", "awaitFetch"
  freq,          \* the request fetchApiData has in flight
  fres,          \* the response fetchApiData received last
  event,         \* the page step taken last
  \* module load of route.ts
  env,            \* process.env
  boot,           \* "loading" until the module has been evaluated, then "serving"
  nextAuthSecret, \* const nextAuthSecret
  warned,         \* console.warn was called at load
  provider,       \* authOptions.providers[0]
  refreshReq,     \* the last refresh request sent to the token endpoint
  record,         \* the session record that request was made for
  oidcConfig,     \* the argument createOidcProvider is called with
  \* the provider, as seen by sequential session reads
  supplied        \* the refresh token the provider supplied last

routeVars == <<now, signedIn, cookie, view, grant, pc, tok, t0, calls, resp, path,
               threw, out>>

pageVars == <<variant, data, errDep, signInPending, apiData, apiError, isLoading,
              fpc, freq, fres, event>>

cfgVars == <<env, boot, nextAuthSecret, warned, provider, refreshReq, record,
             oidcConfig>>

seqVars == <<supplied>>

vars == <<routeVars, pageVars, cfgVars, seqVars>>

\* --------------------------------------------------- library defaults
ClientId == "frontend-client"

\* the token NextAuth hands to the jwt callback on a sign-in
DefaultToken(user) == [sub |-> user.id, name |-> user.name, email |-> user.email]

\* the session object NextAuth hands to the session callback
DefaultSession(token) ==
  [user |-> [name |-> token.name, email |-> token.email], expires |-> "maxAge"]

NoToken == [sub |-> "none"]
NoView == [status |-> "unauthenticated"]
NoGrant == [user |-> [id |-> "none"], account |-> [provider |-> "none"]]

\* ------------------------------------------------------ jwt callback
\* variant: the expiry is stored in seconds
JwtSignInSeconds(token, user, account) ==
  LET a == Assign(token, "accessToken", account, "access_token")
      b == Assign(a, "refreshToken", account, "refresh_token")
      c == Assign(b, "idToken", account, "id_token")
      d == IF TruthyNum(account, "expires_at")
             THEN Put(c, "accessTokenExpires", account.expires_at)
             ELSE Del(c, "accessTokenExpires")
  IN  Put(d, "user", user)

\* if (account && user) { ... return token }
JwtSignIn(token, user, account) ==
  LET a == Assign(token, "accessToken", account, "access_token")
      b == Assign(a, "refreshToken", account, "refresh_token")
      c == Assign(b, "idToken", account, "id_token")
      d == IF TruthyNum(account, "expires_at")
             THEN Put(c, "accessTokenExpires", account.expires_at * MsPerSecond)
             ELSE Del(c, "accessTokenExpires")
  IN  Put(d, "user", user)

\* variant: a token is still served at the instant of its expiry
NotExpiredLate(token, t) ==
  TruthyNum(token, "accessTokenExpires") /\ t <= token.accessTokenExpires

\* variant: a token without expiry is taken as fresh
NotExpiredNoExpiry(token, t) ==
  ~Has(token, "accessTokenExpires") \/ t < token.accessTokenExpires

\* variant: the token is treated as expired one millisecond early
NotExpiredEarly(token, t) ==
  TruthyNum(token, "accessTokenExpires") /\ t + 1 < token.accessTokenExpires

\* token.accessTokenExpires && Date.now() < token.accessTokenExpires
NotExpired(token, t) ==
  TruthyNum(token, "accessTokenExpires") /\ t < token.accessTokenExpires

\* variant: the refresh token is not checked
HasRefreshTokenUnchecked(token) == TRUE

\* !token.refreshToken is false
HasRefreshToken(token) == TruthyStr(token, "refreshToken")

\* return { ...token, error: "RefreshAccessTokenError" }
WithError(token) == Put(token, "error", RefreshAccessTokenError)

\* `${x}` of an environment variable: undefined renders as "undefined"
EnvText(e, k) == IF Has(e, k) THEN e[k] ELSE "undefined"

\* variant: the client secret is sent along when one is configured
RefreshRequestWithSecret(e, token) ==
  LET body == [client_id |-> EnvText(e, "OIDC_CLIENT_ID"),
               grant_type |-> "refresh_token",
               refresh_token |-> token.refreshToken]
  IN  [method |-> "POST",
       url |-> EnvText(e, "OIDC_ISSUER") \o "connect/token",
       headers |-> [ContentType |-> "application/x-www-form-urlencoded"],
       body |-> IF TruthyStr(e, "OIDC_CLIENT_SECRET")
                  THEN Put(body, "client_secret", e.OIDC_CLIENT_SECRET)
                  ELSE body]

\* the POST sent to the token endpoint
RefreshRequest(e, token) ==
  [method |-> "POST",
   url |-> EnvText(e, "OIDC_ISSUER") \o "connect/token",
   headers |-> [ContentType |-> "application/x-www-form-urlencoded"],
   body |-> [client_id |-> EnvText(e, "OIDC_CLIENT_ID"),
             grant_type |-> "refresh_token",
             refresh_token |-> token.refreshToken]]

\* variant: the stored value is kept whatever the response holds
CoalesceKeepsToken(o, k, body, bk, token) == Assign(o, k, token, k)

\* variant: refreshedTokens.x without the fallback
CoalesceOverwrite(o, k, body, bk, token) == Assign(o, k, body, bk)

\* refreshedTokens.x ?? token.y
Coalesce(o, k, body, bk, token) ==
  IF Nullish(body, bk) THEN Assign(o, k, token, k) ELSE Put(o, k, body[bk])

\* variant: a successful refresh clears the error
RefreshedClearsError(token, body, t) ==
  LET a == Assign(Del(token, "error"), "accessToken", body, "access_token")
      b == Put(a, "accessTokenExpires", t + body.expires_in * MsPerSecond)
      c == Coalesce(b, "refreshToken", body, "refresh_token", token)
  IN  Coalesce(c, "idToken", body, "id_token", token)

\* variant: the token is rebuilt from the response, without the spread
RefreshedNoSpread(token, body, t) ==
  LET a == [sub |-> token.sub, accessToken |-> body.access_token]
      b == Put(a, "accessTokenExpires", t + body.expires_in * MsPerSecond)
      c == Coalesce(b, "refreshToken", body, "refresh_token", token)
  IN  Coalesce(c, "idToken", body, "id_token", token)

\* variant: expires_in is not converted to milliseconds
RefreshedSeconds(token, body, t) ==
  LET a == Assign(token, "accessToken", body, "access_token")
      b == Put(a, "accessTokenExpires", t + body.expires_in)
      c == Coalesce(b, "refreshToken", body, "refresh_token", token)
  IN  Coalesce(c, "idToken", body, "id_token", token)

\* the object returned when the refresh succeeds
Refreshed(token, body, t) ==
  LET a == Assign(token, "accessToken", body, "access_token")
      b == Put(a, "accessTokenExpires", t + body.expires_in * MsPerSecond)
      c == Coalesce(b, "refreshToken", body, "refresh_token", token)
  IN  Coalesce(c, "idToken", body, "id_token", token)

\* the try block: fetch, response.json(), the response.ok test, the return
TryRefresh(token, response, t) ==
  IF response.kind = "network_error"
    THEN [threw |-> TRUE, err |-> "fetch failed", ret |-> token]
  ELSE IF ~response.parsable
    THEN [threw |-> TRUE, err |-> "SyntaxError", ret |-> token]
  ELSE IF ~response.ok
    THEN [threw |-> TRUE, err |-> response.body.error, ret |-> token]
  ELSE [threw |-> FALSE, err |-> "", ret |-> Refreshed(token, response.body, t)]

\* variant: the catch block forgets the access token
CatchRefreshDropsToken(token, err) ==
  [threw |-> FALSE, err |-> "", ret |-> WithError(Del(token, "accessToken"))]

\* variant: the catch block rethrows
CatchRefreshRethrow(token, err) == [threw |-> TRUE, err |-> err, ret |-> token]

\* variant: the catch block stores what it caught
CatchRefreshDetail(token, err) ==
  [threw |-> FALSE, err |-> "", ret |-> Put(token, "error", err)]

\* the catch block
CatchRefresh(token, err) == [threw |-> FALSE, err |-> "", ret |-> WithError(token)]

\* try { ... } catch (error) { ... }
RefreshOutcome(token, response, t) ==
  LET r == TryRefresh(token, response, t)
  IN  IF r.threw THEN CatchRefresh(token, r.err) ELSE r

\* -------------------------------------------------- session callback
\* variant: the default session's user is kept
SessionUserKept(session, token) == session

\* if (token.user) session.user = token.user
SessionUser(session, token) ==
  IF Has(token, "user") THEN Put(session, "user", token.user) ELSE session

\* variant: the whole token is spread into the session
SessionCallbackSpread(session, token) ==
  [x \in (DOMAIN session) \cup (DOMAIN token) |->
     IF x \in DOMAIN token THEN token[x] ELSE session[x]]

SessionCallback(session, token) ==
  LET a == SessionUser(session, token)
      b == Assign(a, "accessToken", token, "accessToken")
  IN  Assign(b, "error", token, "error")

\* ------------------------------------------------------ module load
Fallback == "your-default-secret-for-dev-only"

\* process.env.NEXTAUTH_SECRET || "your-default-secret-for-dev-only"
NextAuthSecretOf(e) ==
  IF TruthyStr(e, "NEXTAUTH_SECRET") THEN e.NEXTAUTH_SECRET ELSE Fallback

\* the condition of the startup warning
Warns(e) == e.NODE_ENV = "development" /\ NextAuthSecretOf(e) = Fallback

\* String.prototype.trim, for strings whose only white space is the blank
RECURSIVE TrimStart(_)
TrimStart(s) ==
  IF Len(s) > 0 /\ SubSeq(s, 1, 1) = " " THEN TrimStart(SubSeq(s, 2, Len(s))) ELSE s

RECURSIVE TrimEnd(_)
TrimEnd(s) ==
  IF Len(s) > 0 /\ SubSeq(s, Len(s), Len(s)) = " "
    THEN TrimEnd(SubSeq(s, 1, Len(s) - 1)) ELSE s

Trim(s) == TrimEnd(TrimStart(s))

\* { ...defaults, ...params }
Spread(defaults, params) ==
  [k \in (DOMAIN defaults) \cup (DOMAIN params) |->
     IF k \in DOMAIN params THEN params[k] ELSE defaults[k]]

\* the object literal of createOidcProvider, before the client secret
ProviderConfig(config) ==
  LET a == [id |-> IF TruthyStr(config, "id") THEN config.id ELSE "oidc",
            name |-> IF TruthyStr(config, "name") THEN config.name ELSE "OIDC",
            type |-> "oauth",
            version |-> "2.0",
            wellKnown |-> IF TruthyStr(config, "wellKnown") THEN config.wellKnown
                          ELSE EnvText(config, "issuer")
                                 \o "/.well-known/openid-configuration",
            authorization |->
              [params |-> Spread([scope |-> "openid profile email",
                                  response_type |-> "code",
                                  code_challenge_method |-> "S256"],
                                 IF Has(config, "authorization")
                                      /\ Has(config.authorization, "params")
                                   THEN config.authorization.params
                                   ELSE [x \in {} |-> ""])],
            token |-> EnvText(config, "issuer") \o "/connect/token",
            userinfo |-> EnvText(config, "issuer") \o "/connect/userinfo",
            checks |-> <<"pkce", "state">>,
            idToken |-> TRUE]
      b == Assign(a, "clientId", config, "clientId")
  IN  Assign(b, "issuer", config, "issuer")

\* variant: the client secret is tested without trim()
CreateOidcProviderNoTrim(config) ==
  IF TruthyStr(config, "clientSecret")
    THEN Put(ProviderConfig(config), "clientSecret", config.clientSecret)
    ELSE ProviderConfig(config)

\* createOidcProvider(config)
CreateOidcProvider(config) ==
  IF TruthyStr(config, "clientSecret") /\ Trim(config.clientSecret) # ""
    THEN Put(ProviderConfig(config), "clientSecret", config.clientSecret)
    ELSE ProviderConfig(config)

\* the argument authOptions passes to createOidcProvider
OidcConfig(e) ==
  LET a == [id |-> "oidc",
            name |-> "My Custom IDP",
            authorization |->
              [params |->
                 [scope |-> "openid profile email offline_access api:healthcare:read"]]]
      b == Assign(a, "clientId", e, "OIDC_CLIENT_ID")
      c == Assign(b, "clientSecret", e, "OIDC_CLIENT_SECRET")
  IN  Assign(c, "issuer", e, "OIDC_ISSUER")

\* ------------------------------------------------- environments studied
Absent == "<absent>"

Issuers == {"https://idp.example", "https://idp.example/"}
ClientSecrets == {"", " ", "s3cret", " s3cret "}
SessionSecrets == {"", "k3y"}
NodeEnvs == {"development", "production", "test"}

\* process.env with the variables that are set
MkEnv(vals) == [k \in {x \in DOMAIN vals : vals[x] # Absent} |-> vals[k]]

Envs ==
  { MkEnv([OIDC_ISSUER |-> i, OIDC_CLIENT_ID |-> c, OIDC_CLIENT_SECRET |-> cs,
           NEXTAUTH_SECRET |-> n, NODE_ENV |-> d]) :
      i \in Issuers \cup {Absent}, c \in {ClientId, Absent},
      cs \in ClientSecrets \cup {Absent}, n \in SessionSecrets \cup {Absent},
      d \in NodeEnvs }

\* ---------------------------------------- configurations studied
\* o with k set to v, unless v stands for a property that is not given
Opt(o, k, v) == IF v = Absent THEN o ELSE Put(o, k, v)

\* the authorization property a caller may give
Authorizations ==
  { [x \in {} |-> ""],
    [params |-> [x \in {} |-> ""]],
    [params |-> [scope |-> "openid profile email offline_access api:healthcare:read"]],
    [params |-> [scope |-> "profile email"]],
    [params |-> [code_challenge_method |-> "plain"]],
    [params |-> [prompt |-> "login"]] }

PlainConfigs ==
  { Opt(Opt(Opt(Opt([clientId |-> ClientId, issuer |-> "https://idp.example"],
                    "clientSecret", cs), "id", i), "name", n), "wellKnown", w) :
      cs \in {Absent, "s3cret"}, i \in {Absent, "oidc"},
      n \in {Absent, "My Custom IDP"},
      w \in {Absent, "https://idp.example/.well-known/openid-configuration"} }

\* arguments of createOidcProvider (CustomOidcConfig)
Configs ==
  PlainConfigs \cup { Put(c, "authorization", a) : c \in PlainConfigs, a \in Authorizations }

\* session records a sign-in leaves in the cookie
SignInRecords == { JwtSignIn(DefaultToken(g[1]), g[1], g[2]) : g \in SignIns }

\* ------------------------------------------------------------- Init
NoApiRequest == [method |-> "none"]
NoApiResponse == [kind |-> "none"]
NoEnv == [NODE_ENV |-> "none"]
NoProvider == [id |-> "none"]
NoRequest == [method |-> "none"]
NoConfig == [id |-> "none"]
NoSupply == "none"

\* the provider has supplied no refresh token
SeqIdle == supplied = NoSupply

\* the page is not mounted
PageIdle ==
  /\ variant = "page.tsx"
  /\ data = NoView
  /\ errDep = "unmounted"
  /\ signInPending = FALSE
  /\ apiData = Null
  /\ apiError = Null
  /\ isLoading = FALSE
  /\ fpc = "idle"
  /\ freq = NoApiRequest
  /\ fres = NoApiResponse
  /\ event = "none"

\* the configuration is not under study
CfgIdle ==
  /\ env = NoEnv
  /\ boot = "none"
  /\ nextAuthSecret = ""
  /\ warned = FALSE
  /\ provider = NoProvider
  /\ refreshReq = NoRequest
  /\ record = NoToken
  /\ oidcConfig = NoConfig

Init ==
  /\ PageIdle
  /\ CfgIdle
  /\ SeqIdle
  /\ now = MinNow
  /\ signedIn = FALSE
  /\ cookie = NoToken
  /\ view = NoView
  /\ grant = NoGrant
  /\ pc = [r \in Readers |-> "idle"]
  /\ tok = [r \in Readers |-> NoToken]
  /\ t0 = [r \in Readers |-> 0]
  /\ calls = [r \in Readers |-> 0]
  /\ resp = [r \in Readers |-> NoResponse]
  /\ path = [r \in Readers |-> "none"]
  /\ threw = [r \in Readers |-> FALSE]
  /\ out = [r \in Readers |-> NoToken]

\* ----------------------------------------------------------- actions
\* the clock advances
Tick ==
  /\ \E t \in Times : t > now /\ now' = t
  /\ UNCHANGED <<signedIn, cookie, view, grant, pc, tok, t0, calls, resp, path,
                 threw, out>>
  /\ UNCHANGED <<pageVars, cfgVars, seqVars>>

\* variant: a refresh token the account lacks is taken from the stored record
SignInKeepsRefreshToken ==
  /\ \E s \in SignIns :
       LET fresh == JwtSignIn(DefaultToken(s[1]), s[1], s[2])
       IN  /\ cookie' = IF Has(fresh, "refreshToken") THEN fresh
                         ELSE Assign(fresh, "refreshToken", cookie, "refreshToken")
           /\ grant' = [user |-> s[1], account |-> s[2]]
  /\ signedIn' = TRUE
  /\ UNCHANGED <<now, view, pc, tok, t0, calls, resp, path, threw, out>>
  /\ UNCHANGED <<pageVars, cfgVars, seqVars>>

\* the OIDC callback completes: jwt({token, user, account}) and the cookie is set
SignIn ==
  /\ \E s \in SignIns :
       /\ cookie' = JwtSignIn(DefaultToken(s[1]), s[1], s[2])
       /\ grant' = [user |-> s[1], account |-> s[2]]
  /\ signedIn' = TRUE
  /\ UNCHANGED <<now, view, pc, tok, t0, calls, resp, path, threw, out>>
  /\ UNCHANGED <<pageVars, cfgVars, seqVars>>

\* a session request decodes the cookie and runs jwt({token}) up to its first
\* await: the expiry check, the refresh-token check, the fetch
ReadStart(r) ==
  /\ signedIn
  /\ pc[r] = "idle"
  /\ IF NotExpired(cookie, now)
       THEN /\ out' = [out EXCEPT ![r] = cookie]
            /\ path' = [path EXCEPT ![r] = "hit"]
            /\ pc' = [pc EXCEPT ![r] = "done"]
            /\ UNCHANGED <<calls, tok, t0>>
     ELSE IF ~HasRefreshToken(cookie)
       THEN /\ out' = [out EXCEPT ![r] = WithError(cookie)]
            /\ path' = [path EXCEPT ![r] = "norefresh"]
            /\ pc' = [pc EXCEPT ![r] = "done"]
            /\ UNCHANGED <<calls, tok, t0>>
     ELSE /\ calls' = [calls EXCEPT ![r] = calls[r] + 1]
          /\ tok' = [tok EXCEPT ![r] = cookie]
          /\ t0' = [t0 EXCEPT ![r] = now]
          /\ path' = [path EXCEPT ![r] = "refresh"]
          /\ pc' = [pc EXCEPT ![r] = "awaitFetch"]
          /\ UNCHANGED out
  /\ UNCHANGED <<now, signedIn, cookie, view, grant, resp, threw>>
  /\ UNCHANGED <<pageVars, cfgVars, seqVars>>

\* variant: a failed refresh is tried once more
RefreshResponseRetry(r) ==
  /\ pc[r] = "awaitFetch"
  /\ \E response \in Responses :
       LET o == RefreshOutcome(tok[r], response, now)
       IN  IF Has(o.ret, "error") /\ calls[r] < 2
             THEN /\ calls' = [calls EXCEPT ![r] = calls[r] + 1]
                  /\ UNCHANGED <<resp, threw, out, tok, t0, pc>>
             ELSE /\ resp' = [resp EXCEPT ![r] = response]
                  /\ threw' = [threw EXCEPT ![r] = o.threw]
                  /\ out' = [out EXCEPT ![r] = o.ret]
                  /\ tok' = [tok EXCEPT ![r] = NoToken]
                  /\ t0' = [t0 EXCEPT ![r] = 0]
                  /\ pc' = [pc EXCEPT ![r] = "done"]
                  /\ UNCHANGED calls
  /\ UNCHANGED <<now, signedIn, cookie, view, grant, path>>
  /\ UNCHANGED <<pageVars, cfgVars, seqVars>>

\* the token endpoint answers (or the connection fails): the rest of the try
\* block and the catch block
RefreshResponse(r) ==
  /\ pc[r] = "awaitFetch"
  /\ \E response \in Responses :
       LET o == RefreshOutcome(tok[r], response, now)
       IN  /\ resp' = [resp EXCEPT ![r] = response]
           /\ threw' = [threw EXCEPT ![r] = o.threw]
           /\ out' = [out EXCEPT ![r] = o.ret]
  /\ tok' = [tok EXCEPT ![r] = NoToken]
  /\ t0' = [t0 EXCEPT ![r] = 0]
  /\ pc' = [pc EXCEPT ![r] = "done"]
  /\ UNCHANGED <<now, signedIn, cookie, view, grant, calls, path>>
  /\ UNCHANGED <<pageVars, cfgVars, seqVars>>

\* variant: the returned token is merged into the stored record field by field
ReadCommitMerge(r) ==
  /\ pc[r] = "done"
  /\ IF threw[r]
       THEN UNCHANGED <<cookie, view, grant>>
       ELSE /\ cookie' = [k \in (DOMAIN cookie) \cup (DOMAIN out[r]) |->
                           IF k \in DOMAIN out[r] THEN out[r][k] ELSE cookie[k]]
            /\ grant' = NoGrant
            /\ view' = SessionCallback(DefaultSession(out[r]), out[r])
  /\ pc' = [pc EXCEPT ![r] = "idle"]
  /\ calls' = [calls EXCEPT ![r] = 0]
  /\ resp' = [resp EXCEPT ![r] = NoResponse]
  /\ path' = [path EXCEPT ![r] = "none"]
  /\ threw' = [threw EXCEPT ![r] = FALSE]
  /\ out' = [out EXCEPT ![r] = NoToken]
  /\ UNCHANGED <<now, signedIn, tok, t0>>
  /\ UNCHANGED <<pageVars, cfgVars, seqVars>>

\* the session request finishes: session({session, token}) builds the payload
\* and the returned token is written back to the cookie
ReadCommit(r) ==
  /\ pc[r] = "done"
  /\ IF threw[r]
       THEN UNCHANGED <<cookie, view, grant>>
       ELSE /\ cookie' = out[r]
            /\ grant' = NoGrant
            /\ view' = SessionCallback(DefaultSession(out[r]), out[r])
  /\ pc' = [pc EXCEPT ![r] = "idle"]
  /\ calls' = [calls EXCEPT ![r] = 0]
  /\ resp' = [resp EXCEPT ![r] = NoResponse]
  /\ path' = [path EXCEPT ![r] = "none"]
  /\ threw' = [threw EXCEPT ![r] = FALSE]
  /\ out' = [out EXCEPT ![r] = NoToken]
  /\ UNCHANGED <<now, signedIn, tok, t0>>
  /\ UNCHANGED <<pageVars, cfgVars, seqVars>>

Next ==
  \/ Tick
  \/ SignIn
  \/ \E r \in Readers : ReadStart(r)
  \/ \E r \in Readers : RefreshResponse(r)
  \/ \E r \in Readers : ReadCommit(r)

Spec == Init /\ [][Next]_vars

\* ------------------------------------------- session reads one at a time
\* the reader of the sequential runs
Reader == "tabA"

\* the refresh token an account or a token-endpoint body hands over, if any
SuppliedBy(o, k, previous) == IF Nullish(o, k) THEN previous ELSE o[k]

\* a sign-in while no session read is running
SeqSignIn ==
  /\ pc[Reader] = "idle"
  /\ \E s \in SignIns :
       /\ cookie' = JwtSignIn(DefaultToken(s[1]), s[1], s[2])
       /\ grant' = [user |-> s[1], account |-> s[2]]
       /\ supplied' = SuppliedBy(s[2], "refresh_token", NoSupply)
  /\ signedIn' = TRUE
  /\ UNCHANGED <<now, view, pc, tok, t0, calls, resp, path, threw, out>>
  /\ UNCHANGED <<pageVars, cfgVars>>

\* the token endpoint answers the one read in flight
SeqRefreshResponse ==
  /\ pc[Reader] = "awaitFetch"
  /\ \E response \in Responses :
       LET o == RefreshOutcome(tok[Reader], response, now)
       IN  /\ resp' = [resp EXCEPT ![Reader] = response]
           /\ threw' = [threw EXCEPT ![Reader] = o.threw]
           /\ out' = [out EXCEPT ![Reader] = o.ret]
           /\ supplied' = IF response.kind = "http" /\ response.ok /\ response.parsable
                             THEN SuppliedBy(response.body, "refresh_token", supplied)
                             ELSE supplied
  /\ tok' = [tok EXCEPT ![Reader] = NoToken]
  /\ t0' = [t0 EXCEPT ![Reader] = 0]
  /\ pc' = [pc EXCEPT ![Reader] = "done"]
  /\ UNCHANGED <<now, signedIn, cookie, view, grant, calls, path>>
  /\ UNCHANGED <<pageVars, cfgVars>>

SeqNext ==
  \/ Tick
  \/ SeqSignIn
  \/ ReadStart(Reader)
  \/ SeqRefreshResponse
  \/ ReadCommit(Reader)

SpecSeq == Init /\ [][SeqNext]_vars


\* ================================================================ page
\* HomePage of src/app/page.tsx and of its second copy (part_001)
Variants == {"page.tsx", "part_001"}

ApiUrl == "https://localhost:7077/api/data"
NoTokenMessage == "No access token available. Please log in."
BodyLimit == 100

Min(a, b) == IF a < b THEN a ELSE b

\* s.includes(p)
Contains(s, p) ==
  \E i \in 1..(Len(s) - Len(p) + 1) : SubSeq(s, i, i + Len(p) - 1) = p

\* s.substring(0, n)
Substring0(s, n) == SubSeq(s, 1, Min(Len(s), n))

\* session records the page may be shown a projection of
PageTokens ==
  LET full == JwtSignIn(DefaultToken(Ann), Ann,
                [provider |-> "oidc", access_token |-> "A1", expires_at |-> 1,
                 refresh_token |-> "R1", id_token |-> "I1"])
      bare == JwtSignIn(DefaultToken(Bob), Bob, [provider |-> "oidc"])
  IN  { full, WithError(full), bare, WithError(bare),
        Refreshed(WithError(full), [access_token |-> "A2", expires_in |-> 1], MinNow) }

\* useSession().data : null, or what the session callback returned
PageSessions ==
  {NoView} \cup { SessionCallback(DefaultSession(t), t) : t \in PageTokens }

\* session?.error
ErrorOf(s) == IF Has(s, "error") THEN s.error ELSE "undefined"

LongBody ==
  LET ten == "0123456789"
      fifty == ten \o ten \o ten \o ten \o ten
  IN  fifty \o fifty \o "overflow"

\* outcomes of fetch(ApiUrl) followed by res.json() or res.text()
ApiResponses ==
  { [kind |-> "network_error", thrown |-> "Failed to fetch"],
    [kind |-> "http", status |-> 200, statusText |-> "OK", readable |-> TRUE,
     body |-> "{rows}", thrown |-> ""],
    [kind |-> "http", status |-> 200, statusText |-> "OK", readable |-> FALSE,
     body |-> "", thrown |-> "Unexpected token"],
    [kind |-> "http", status |-> 401, statusText |-> "Unauthorized", readable |-> TRUE,
     body |-> "", thrown |-> ""],
    [kind |-> "http", status |-> 401, statusText |-> "Unauthorized", readable |-> FALSE,
     body |-> "", thrown |-> "network error"],
    [kind |-> "http", status |-> 403, statusText |-> "Forbidden", readable |-> TRUE,
     body |-> "denied", thrown |-> ""],
    [kind |-> "http", status |-> 404, statusText |-> "", readable |-> TRUE,
     body |-> LongBody, thrown |-> ""],
    [kind |-> "http", status |-> 500, statusText |-> "Internal Server Error",
     readable |-> TRUE, body |-> "Insufficient permissions", thrown |-> ""] }

\* res.ok
ResOk(res) == res.status \in 200..299

\* variant: the token is sent without the Bearer scheme
ApiRequestRaw(s) ==
  [method |-> "GET", url |-> ApiUrl,
   headers |-> [Authorization |-> s.accessToken, ContentType |-> "application/json"]]

\* the headers of the request to the protected resource
ApiRequest(s) ==
  [method |-> "GET", url |-> ApiUrl,
   headers |-> [Authorization |-> "Bearer " \o s.accessToken,
                ContentType |-> "application/json"]]

\* variant: the texts for 401 and 403 are exchanged
ApiErrorMessageSwapped(res, errorData) ==
  LET base == "API Error: " \o ToString(res.status) \o " " \o res.statusText
      errorMessage ==
        IF res.status = 403 THEN base \o " - Access token may be expired or invalid"
        ELSE IF res.status = 401 THEN base \o " - Insufficient permissions"
        ELSE base
  IN  errorMessage \o ". " \o Substring0(errorData, BodyLimit)

\* the message built in the else branch of res.ok
ApiErrorMessage(res, errorData) ==
  LET base == "API Error: " \o ToString(res.status) \o " " \o res.statusText
      errorMessage ==
        IF res.status = 401 THEN base \o " - Access token may be expired or invalid"
        ELSE IF res.status = 403 THEN base \o " - Insufficient permissions"
        ELSE base
  IN  errorMessage \o ". " \o Substring0(errorData, BodyLimit)

\* the catch block: <<apiData, apiError>>
FetchCaught(message) == <<Null, "Network Error: " \o message>>

\* the try block after await fetch: <<apiData, apiError>>
FetchOutcome(res, prevData, prevError) ==
  IF res.kind = "network_error" THEN FetchCaught(res.thrown)
  ELSE IF ~res.readable THEN FetchCaught(res.thrown)
  ELSE IF ResOk(res) THEN <<res.body, prevError>>
  ELSE <<Null, ApiErrorMessage(res, res.body)>>

\* the page is mounted with the session the server rendered
PageInit ==
  /\ variant \in Variants
  /\ data \in PageSessions
  /\ errDep = "unmounted"
  /\ signInPending = FALSE
  /\ apiData = Null
  /\ apiError = Null
  /\ isLoading = FALSE
  /\ fpc = "idle"
  /\ freq = NoApiRequest
  /\ fres = NoApiResponse
  /\ event = "mount"

\* the effect on [session?.error] has not run for the rendered value
EffectPending == ErrorOf(data) # errDep

\* useSession() delivers another session and the page renders it
SessionChange ==
  /\ ~EffectPending
  /\ \E s \in PageSessions : s # data /\ data' = s
  /\ event' = "session"
  /\ UNCHANGED <<variant, errDep, signInPending, apiData, apiError, isLoading, fpc,
                 freq, fres>>
  /\ UNCHANGED <<routeVars, cfgVars, seqVars>>

\* variant: the effect compares with another literal
RunErrorEffectWrongLiteral ==
  /\ EffectPending
  /\ errDep' = ErrorOf(data)
  /\ signInPending' = IF ErrorOf(data) = "RefreshError" THEN TRUE ELSE signInPending
  /\ event' = "effect"
  /\ UNCHANGED <<variant, data, apiData, apiError, isLoading, fpc, freq, fres>>
  /\ UNCHANGED <<routeVars, cfgVars, seqVars>>

\* useEffect(() => { if (session?.error === ...) signIn("oidc") }, [session?.error])
RunErrorEffect ==
  /\ EffectPending
  /\ errDep' = ErrorOf(data)
  /\ signInPending' =
       IF ErrorOf(data) = RefreshAccessTokenError THEN TRUE ELSE signInPending
  /\ event' = "effect"
  /\ UNCHANGED <<variant, data, apiData, apiError, isLoading, fpc, freq, fres>>
  /\ UNCHANGED <<routeVars, cfgVars, seqVars>>

\* the sign-in button of the unauthenticated view
SignInClick ==
  /\ ~EffectPending
  /\ data = NoView
  /\ signInPending' = TRUE
  /\ event' = "signInClick"
  /\ UNCHANGED <<variant, data, errDep, apiData, apiError, isLoading, fpc, freq,
                 fres>>
  /\ UNCHANGED <<routeVars, cfgVars, seqVars>>

\* the browser leaves for the provider and comes back: the page is mounted anew
Redirect ==
  /\ signInPending
  /\ ~EffectPending
  /\ data' \in PageSessions
  /\ errDep' = "unmounted"
  /\ signInPending' = FALSE
  /\ apiData' = Null
  /\ apiError' = Null
  /\ isLoading' = FALSE
  /\ fpc' = "idle"
  /\ freq' = NoApiRequest
  /\ fres' = NoApiResponse
  /\ event' = "mount"
  /\ UNCHANGED variant
  /\ UNCHANGED <<routeVars, cfgVars, seqVars>>

\* the fetch button: fetchApiData up to its first await
FetchClick ==
  /\ data # NoView
  /\ ~isLoading
  /\ fpc = "idle"
  /\ event' = "fetchClick"
  /\ fres' = NoApiResponse
  /\ IF ~TruthyStr(data, "accessToken")
       THEN /\ apiData' = IF variant = "page.tsx" THEN Null ELSE apiData
            /\ apiError' = NoTokenMessage
            /\ UNCHANGED <<isLoading, fpc, freq>>
       ELSE /\ isLoading' = TRUE
            /\ apiError' = Null
            /\ freq' = ApiRequest(data)
            /\ fpc' = "awaitFetch"
            /\ UNCHANGED apiData
  /\ UNCHANGED <<variant, data, errDep, signInPending>>
  /\ UNCHANGED <<routeVars, cfgVars, seqVars>>

\* variant: isLoading is reset at the end of the try block, not in a finally
FetchResponseNoFinally ==
  /\ fpc = "awaitFetch"
  /\ \E res \in ApiResponses :
       LET o == FetchOutcome(res, apiData, apiError)
       IN  /\ apiData' = o[1]
           /\ apiError' = o[2]
           /\ fres' = res
           /\ isLoading' = (res.kind = "network_error" \/ ~res.readable)
  /\ event' = "fetchResponse"
  /\ fpc' = "idle"
  /\ freq' = NoApiRequest
  /\ UNCHANGED <<variant, data, errDep, signInPending>>
  /\ UNCHANGED <<routeVars, cfgVars, seqVars>>

\* the protected resource answers: the rest of try, catch and finally
FetchResponse ==
  /\ fpc = "awaitFetch"
  /\ \E res \in ApiResponses :
       LET o == FetchOutcome(res, apiData, apiError)
       IN  /\ apiData' = o[1]
           /\ apiError' = o[2]
           /\ fres' = res
  /\ event' = "fetchResponse"
  /\ isLoading' = FALSE
  /\ fpc' = "idle"
  /\ freq' = NoApiRequest
  /\ UNCHANGED <<variant, data, errDep, signInPending>>
  /\ UNCHANGED <<routeVars, cfgVars, seqVars>>

PageNext ==
  \/ SessionChange
  \/ RunErrorEffect
  \/ SignInClick
  \/ Redirect
  \/ FetchClick
  \/ FetchResponse

RouteIdle ==
  /\ now = MinNow
  /\ signedIn = FALSE
  /\ cookie = NoToken
  /\ view = NoView
  /\ grant = NoGrant
  /\ pc = [r \in Readers |-> "idle"]
  /\ tok = [r \in Readers |-> NoToken]
  /\ t0 = [r \in Readers |-> 0]
  /\ calls = [r \in Readers |-> 0]
  /\ resp = [r \in Readers |-> NoResponse]
  /\ path = [r \in Readers |-> "none"]
  /\ threw = [r \in Readers |-> FALSE]
  /\ out = [r \in Readers |-> NoToken]

\* the page is mounted; the route and the configuration are not under study
InitPage == PageInit /\ RouteIdle /\ CfgIdle /\ SeqIdle

SpecPage == InitPage /\ [][PageNext]_vars

\* React runs a pending effect
SpecPageFair == SpecPage /\ WF_vars(RunErrorEffect)

\* and the promise fetch returned is settled
SpecPageLive == SpecPage /\ WF_vars(RunErrorEffect) /\ WF_vars(FetchResponse)

\* ------------------------------------------------- route.ts is loaded
CfgInit ==
  /\ env \in Envs
  /\ boot = "loading"
  /\ nextAuthSecret = ""
  /\ warned = FALSE
  /\ provider = NoProvider
  /\ refreshReq = NoRequest
  /\ record = NoToken
  /\ oidcConfig = NoConfig

\* the module body runs: nextAuthSecret, the warning, authOptions, handler
Startup ==
  /\ boot = "loading"
  /\ nextAuthSecret' = NextAuthSecretOf(env)
  /\ warned' = Warns(env)
  /\ oidcConfig' = OidcConfig(env)
  /\ provider' = CreateOidcProvider(oidcConfig')
  /\ boot' = "serving"
  /\ UNCHANGED <<env, refreshReq, record>>
  /\ UNCHANGED <<routeVars, pageVars, seqVars>>

\* a session read whose record is expired and has a refresh token: the fetch
RefreshCall ==
  /\ boot = "serving"
  /\ \E token \in SignInRecords, t \in Times :
       /\ ~NotExpired(token, t)
       /\ HasRefreshToken(token)
       /\ record' = token
       /\ refreshReq' = RefreshRequest(env, token)
  /\ UNCHANGED <<env, boot, nextAuthSecret, warned, provider, oidcConfig>>
  /\ UNCHANGED <<routeVars, pageVars, seqVars>>

CfgNext == Startup \/ RefreshCall

\* the module is about to be loaded; no page, no session read
InitConfig == CfgInit /\ PageIdle /\ RouteIdle /\ SeqIdle

SpecConfig == InitConfig /\ [][CfgNext]_vars

\* ------------------------------------- createOidcProvider on its own
ProviderInit ==
  /\ oidcConfig \in Configs
  /\ env = NoEnv
  /\ boot = "none"
  /\ nextAuthSecret = ""
  /\ warned = FALSE
  /\ provider = NoProvider
  /\ refreshReq = NoRequest
  /\ record = NoToken

\* createOidcProvider(oidcConfig) returns
BuildProvider ==
  /\ provider = NoProvider
  /\ provider' = CreateOidcProvider(oidcConfig)
  /\ UNCHANGED <<env, boot, nextAuthSecret, warned, refreshReq, record, oidcConfig>>
  /\ UNCHANGED <<routeVars, pageVars, seqVars>>

ProviderNext == BuildProvider

\* a configuration is about to be passed to createOidcProvider
InitProvider == ProviderInit /\ PageIdle /\ RouteIdle /\ SeqIdle

SpecProvider == InitProvider /\ [][ProviderNext]_vars

TypeOK ==
  /\ now \in Times
  /\ signedIn \in BOOLEAN
  /\ \A r \in Readers : pc[r] \in {"idle", "awaitFetch", "done"}

\* ------------------------------------------------------- properties
\* both objects carry the same value under k, or neither carries k
Same(a, b, k) == (Has(a, k) <=> Has(b, k)) /\ (Has(a, k) => a[k] = b[k])

\* a session read r runs the jwt callback up to its first await or its return
StartsRead(r) == pc[r] = "idle" /\ pc'[r] # "idle"

\* a session read r receives the outcome of its refresh request
Answered(r) == pc[r] = "awaitFetch" /\ pc'[r] = "done"

\* t is before / at or after the expiry stored in the record
Before(token, t) == Has(token, "accessTokenExpires") /\ t < token.accessTokenExpires
Past(token, t) == Has(token, "accessTokenExpires") /\ t >= token.accessTokenExpires

\* the record carries a non-empty refresh token
Present(token) == Has(token, "refreshToken") /\ token.refreshToken \notin {"", Null}

IsSuccess(response) == response.kind = "http" /\ response.ok /\ response.parsable
IsFailure(response) == response.kind = "network_error" \/ (response.kind = "http" /\ ~response.ok)

TokenFields == {"accessToken", "refreshToken", "idToken", "accessTokenExpires", "user"}

\* C1: a session read at a time before accessTokenExpires returns the record
\* it was given, every field unchanged, and calls the token endpoint zero times.
C1_CacheHit ==
  [][\A r \in Readers :
       StartsRead(r) /\ Before(cookie, now)
         => /\ pc'[r] = "done"
            /\ out'[r] = cookie
            /\ calls'[r] = 0
            /\ ~threw'[r]]_vars

C1_Witness ==
  \E r \in Readers :
    /\ pc[r] = "done" /\ path[r] = "hit" /\ calls[r] = 0
    /\ out[r] = cookie /\ Before(out[r], now) /\ Present(out[r])

\* C2: a session read at or after accessTokenExpires with a refresh token
\* present calls the token endpoint exactly once, whatever the outcome, and
\* whatever the other reads do meanwhile.
C2_OneCallPerRead ==
  [][\A r \in Readers :
       /\ StartsRead(r) /\ Past(cookie, now) /\ Present(cookie)
            => pc'[r] = "awaitFetch" /\ calls'[r] = 1
       /\ pc[r] = "awaitFetch" => calls[r] = 1 /\ calls'[r] = 1
       /\ pc[r] = "done" /\ path[r] = "refresh" => calls[r] = 1]_vars

C2_Witness ==
  \E r, q \in Readers :
    /\ r # q
    /\ pc[r] = "done" /\ path[r] = "refresh" /\ IsFailure(resp[r]) /\ calls[r] = 1
    /\ pc[q] = "awaitFetch" /\ calls[q] = 1
    /\ Has(tok[q], "accessTokenExpires") /\ t0[q] = tok[q].accessTokenExpires

\* C3: the session payload sent to the browser never has a refreshToken field
\* nor an idToken field.
C3_NoRefreshTokenInView ==
  /\ ~Has(view, "refreshToken")
  /\ ~Has(view, "idToken")

C3_Witness ==
  /\ Has(view, "accessToken") /\ Has(view, "error")
  /\ Has(cookie, "refreshToken") /\ Has(cookie, "idToken")
  /\ view = SessionCallback(DefaultSession(cookie), cookie)

\* C4: when the refresh fails (network error or non-success response) the
\* returned record has error = RefreshAccessTokenError and the accessToken,
\* refreshToken, idToken, accessTokenExpires and user it had before.
C4_FailureKeepsTokens ==
  [][\A r \in Readers :
       Answered(r) /\ IsFailure(resp'[r])
         => /\ Has(out'[r], "error")
            /\ out'[r].error = RefreshAccessTokenError
            /\ \A k \in TokenFields : Same(out'[r], tok[r], k)]_vars

C4_Witness ==
  \E r \in Readers :
    /\ pc[r] = "done" /\ resp[r].kind = "http" /\ ~resp[r].ok
    /\ Has(out[r], "error") /\ out[r].error = RefreshAccessTokenError
    /\ TokenFields \subseteq DOMAIN out[r]

\* C5: a session read of an expired record without a refresh token returns the
\* record with error = RefreshAccessTokenError and the same access token, calls
\* the token endpoint zero times and does not throw.
C5_NoRefreshToken ==
  [][\A r \in Readers :
       StartsRead(r) /\ Past(cookie, now) /\ ~Present(cookie)
         => /\ pc'[r] = "done"
            /\ Has(out'[r], "error")
            /\ out'[r].error = RefreshAccessTokenError
            /\ Same(out'[r], cookie, "accessToken")
            /\ calls'[r] = 0
            /\ ~threw'[r]]_vars

C5_Witness ==
  \E r \in Readers :
    /\ pc[r] = "done" /\ path[r] = "norefresh" /\ calls[r] = 0
    /\ Past(out[r], now) /\ ~Has(out[r], "refreshToken")
    /\ Has(out[r], "accessToken") /\ Has(out[r], "error")

\* C6: after a successful refresh, refreshToken (idToken) is the stored value
\* when the response omits refresh_token (id_token) or gives it as null, and is
\* the response's value otherwise.
C6_RefreshTokenRetained ==
  [][\A r \in Readers :
       Answered(r) /\ IsSuccess(resp'[r])
         => \A f \in {<<"refreshToken", "refresh_token">>, <<"idToken", "id_token">>} :
              IF ~Has(resp'[r].body, f[2]) \/ resp'[r].body[f[2]] = Null
                THEN Same(out'[r], tok[r], f[1])
                ELSE Has(out'[r], f[1]) /\ out'[r][f[1]] = resp'[r].body[f[2]]]_vars

C6_Witness ==
  \E r, q \in Readers :
    /\ pc[r] = "done" /\ IsSuccess(resp[r])
    /\ ~Has(resp[r].body, "refresh_token") /\ ~Has(resp[r].body, "id_token")
    /\ Has(out[r], "refreshToken") /\ out[r].refreshToken = "R1"
    /\ Has(out[r], "idToken") /\ out[r].idToken = "I1"
    /\ pc[q] = "done" /\ IsSuccess(resp[q])
    /\ Has(resp[q].body, "refresh_token") /\ out[q].refreshToken = "R2"

\* C7 as stated: a read whose expiry check ran at time t0 past accessTokenExpires
\* and whose refresh succeeds with {access_token, expires_in} returns
\* accessToken = access_token and accessTokenExpires = t0 + expires_in * 1000.
C7_Original ==
  [][\A r \in Readers :
       Answered(r) /\ IsSuccess(resp'[r]) /\ Past(tok[r], t0[r])
         => /\ Has(out'[r], "accessToken")
            /\ out'[r].accessToken = resp'[r].body.access_token
            /\ out'[r].accessTokenExpires
                 = t0[r] + resp'[r].body.expires_in * MsPerSecond]_vars

\* C7 amended: such a read returns accessToken = access_token and
\* accessTokenExpires = t1 + expires_in * 1000, where t1 >= t0 is the clock
\* reading when the response is processed.
C7_RefreshedExpiry ==
  [][\A r \in Readers :
       Answered(r) /\ IsSuccess(resp'[r]) /\ Past(tok[r], t0[r])
         => /\ Has(out'[r], "accessToken")
            /\ out'[r].accessToken = resp'[r].body.access_token
            /\ t0[r] <= now
            /\ out'[r].accessTokenExpires
                 = now + resp'[r].body.expires_in * MsPerSecond]_vars

C7_Witness ==
  \E r \in Readers :
    /\ pc[r] = "done" /\ IsSuccess(resp[r]) /\ resp[r].body.expires_in = 1
    /\ out[r].accessToken = "A2"
    /\ out[r].accessTokenExpires = now + MsPerSecond

\* C8 as stated: after a sign-in whose account has expires_at = T and
\* access_token = A1, the record has accessTokenExpires = T * 1000 and
\* accessToken = A1, for every T.
C8_Original ==
  grant # NoGrant /\ Has(grant.account, "expires_at")
    => /\ Has(cookie, "accessToken")
       /\ cookie.accessToken = grant.account.access_token
       /\ Has(cookie, "accessTokenExpires")
       /\ cookie.accessTokenExpires = grant.account.expires_at * MsPerSecond

\* C8 amended: the same for every T other than 0; with T = 0 the record has
\* accessToken = A1 and no accessTokenExpires.
C8_SignInExpiry ==
  grant # NoGrant /\ Has(grant.account, "expires_at")
    => /\ Has(cookie, "accessToken")
       /\ cookie.accessToken = grant.account.access_token
       /\ IF grant.account.expires_at # 0
            THEN /\ Has(cookie, "accessTokenExpires")
                 /\ cookie.accessTokenExpires
                      = grant.account.expires_at * MsPerSecond
            ELSE ~Has(cookie, "accessTokenExpires")

C8_Witness ==
  /\ grant # NoGrant /\ Has(grant.account, "expires_at")
  /\ grant.account.expires_at = 1
  /\ cookie.accessToken = "A1"
  /\ cookie.accessTokenExpires = MsPerSecond

\* C9: a session read never rejects: whatever the refresh outcome (network
\* error, non-success status, unparsable body, success) the jwt callback returns
\* a record, and a failure shows only as its error field.
C9_NeverThrows ==
  \A r \in Readers :
    pc[r] = "done"
      => /\ ~threw[r]
         /\ Has(out[r], "sub")
         /\ path[r] = "refresh" /\ ~IsSuccess(resp[r])
              => Has(out[r], "error") /\ out[r].error = RefreshAccessTokenError

C9_Witness ==
  \E r, q \in Readers :
    /\ pc[r] = "done" /\ resp[r].kind = "http" /\ ~resp[r].parsable
    /\ ~threw[r] /\ Has(out[r], "error")
    /\ pc[q] = "done" /\ resp[q].kind = "network_error" /\ ~threw[q]

\* C10: the error field of the session record and of the browser's session is
\* absent or exactly RefreshAccessTokenError; nothing the provider sent and no
\* exception text is ever in it.
C10_ErrorEnum ==
  /\ Has(cookie, "error") => cookie.error = RefreshAccessTokenError
  /\ Has(view, "error") => view.error = RefreshAccessTokenError
  /\ \A r \in Readers : Has(out[r], "error") => out[r].error = RefreshAccessTokenError

C10_Witness ==
  /\ Has(cookie, "error") /\ Has(view, "error")
  /\ \E r \in Readers :
       /\ pc[r] = "done" /\ resp[r].kind = "http" /\ ~resp[r].ok /\ resp[r].parsable
       /\ resp[r].body.error = "invalid_grant"
       /\ Has(out[r], "error")

\* C11: whenever the session the page renders has error =
\* RefreshAccessTokenError and the error effect has not yet run for it, the
\* effect runs and calls signIn("oidc").
C11_ErrorTriggersSignIn ==
  (ErrorOf(data) = RefreshAccessTokenError /\ errDep # RefreshAccessTokenError)
    ~> (event = "effect" /\ errDep = RefreshAccessTokenError /\ signInPending)

C11_Witness ==
  /\ event = "effect" /\ signInPending
  /\ ErrorOf(data) = RefreshAccessTokenError
  /\ Has(data, "accessToken")

\* a session read r finishes and writes its token back to the cookie
Commits(r) == pc[r] = "done" /\ pc'[r] = "idle"

\* C12: once the session record carries the error flag, no session read sends
\* another refresh request and no session read changes the record's access
\* token; only a sign-in does.
C12_SoleRecovery ==
  [][\A r \in Readers :
       Has(cookie, "error")
         => /\ StartsRead(r) => calls'[r] = 0
            /\ Commits(r) => Same(cookie', cookie, "accessToken")]_vars

\* C13: a request to the protected resource is issued only while the rendered
\* session has an access token, with Authorization = "Bearer " followed by that
\* token; invoking fetchApiData without an access token issues no request and
\* sets the no-token error message.
C13_BearerOnlyWithToken ==
  [][/\ freq' # freq /\ freq' # NoApiRequest
          => /\ Has(data, "accessToken") /\ data.accessToken # ""
             /\ freq'.method = "GET" /\ freq'.url = ApiUrl
             /\ freq'.headers.Authorization = "Bearer " \o data.accessToken
     /\ event' = "fetchClick" /\ ~(Has(data, "accessToken") /\ data.accessToken # "")
          => /\ freq' = NoApiRequest /\ fpc' = "idle" /\ ~isLoading'
             /\ apiError' = NoTokenMessage]_vars

C13_Witness ==
  /\ fpc = "awaitFetch" /\ isLoading
  /\ Has(data, "accessToken")
  /\ freq.headers.Authorization = "Bearer A1"

ExpiredPhrase == "expired or invalid"
PermissionPhrase == "Insufficient permissions"

\* the protected resource answered with a status outside 200..299
NonOkAnswer == event = "fetchResponse" /\ fres.kind = "http" /\ ~(fres.status \in 200..299)

\* C14 as stated: for every non-2xx status the message has "expired or invalid"
\* for 401, "Insufficient permissions" for 403 and neither phrase otherwise.
C14_Original ==
  NonOkAnswer
    => IF fres.status = 401 THEN Contains(apiError, ExpiredPhrase)
       ELSE IF fres.status = 403 THEN Contains(apiError, PermissionPhrase)
       ELSE ~Contains(apiError, ExpiredPhrase) /\ ~Contains(apiError, PermissionPhrase)

\* C14 amended: the same when the response body was read, where for the other
\* statuses a phrase is in the message only if it is in the response's own
\* status text or in the first 100 characters of its body; when the body cannot
\* be read the message is a "Network Error: " message.
C14_StatusMessage ==
  NonOkAnswer
    => IF ~fres.readable THEN apiError = "Network Error: " \o fres.thrown
       ELSE IF fres.status = 401 THEN Contains(apiError, ExpiredPhrase)
       ELSE IF fres.status = 403 THEN Contains(apiError, PermissionPhrase)
       ELSE \A p \in {ExpiredPhrase, PermissionPhrase} :
              Contains(apiError, p)
                => \/ Contains(fres.statusText, p)
                   \/ Contains(SubSeq(fres.body, 1, Min(Len(fres.body), 100)), p)

C14_Witness ==
  /\ NonOkAnswer /\ fres.readable /\ fres.status = 401
  /\ Contains(apiError, ExpiredPhrase) /\ ~Contains(apiError, PermissionPhrase)
  /\ apiData = Null

\* C15: the client-visible session the session callback produces for a record
\* has the record's accessToken, the record's error (absent when the record has
\* none) and the record's user.
C15_ViewProjectsRecord ==
  [][\A r \in Readers :
       Commits(r) /\ ~threw[r]
         => /\ Same(view', out[r], "accessToken")
            /\ Same(view', out[r], "error")
            /\ Same(view', out[r], "user")
            /\ Has(view', "user")]_vars

C15_Witness ==
  /\ \A r \in Readers : pc[r] = "idle"
  /\ grant = NoGrant
  /\ Has(cookie, "error") /\ Has(cookie, "accessToken")
  /\ \A k \in {"accessToken", "error", "user"} : Same(view, cookie, k)

\* a refresh request has been sent by the loaded module
RefreshSent == boot = "serving" /\ refreshReq # NoRequest

\* C16 as stated: for every configured issuer, with or without a trailing
\* slash, the URL the refresh POST is sent to equals the token endpoint declared
\* in the provider configuration built from the same issuer.
C16_RefreshUrlIsTokenEndpoint ==
  RefreshSent /\ Has(env, "OIDC_ISSUER") => refreshReq.url = provider.token

\* C17: every refresh request carries exactly grant_type = refresh_token, the
\* configured client_id and the record's stored refresh token, and no client
\* secret, whether or not a client secret is configured.
C17_RefreshBody ==
  RefreshSent
    => /\ refreshReq.method = "POST"
       /\ DOMAIN refreshReq.body = {"client_id", "grant_type", "refresh_token"}
       /\ refreshReq.body.grant_type = "refresh_token"
       /\ refreshReq.body.refresh_token = record.refreshToken
       /\ Has(env, "OIDC_CLIENT_ID")
            => /\ refreshReq.body.client_id = env.OIDC_CLIENT_ID
               /\ refreshReq.body.client_id = provider.clientId
       /\ DOMAIN refreshReq.headers = {"ContentType"}
       /\ Has(env, "OIDC_CLIENT_SECRET")
            => \A k \in DOMAIN refreshReq.body :
                 refreshReq.body[k] # env.OIDC_CLIENT_SECRET

C17_Witness ==
  /\ RefreshSent
  /\ Has(provider, "clientSecret") /\ provider.clientSecret = "s3cret"
  /\ refreshReq.body.client_id = ClientId
  /\ refreshReq.body.refresh_token = "R1"

\* the module has been evaluated
Loaded == boot = "serving"

\* C18 as stated: the provider record has a clientSecret if and only if the
\* configured one is neither undefined nor empty, and then it is the configured
\* value unchanged; it is never an empty string.
C18_Original ==
  Loaded
    => /\ Has(provider, "clientSecret")
            <=> (Has(env, "OIDC_CLIENT_SECRET") /\ env.OIDC_CLIENT_SECRET # "")
       /\ Has(provider, "clientSecret")
            => provider.clientSecret = env.OIDC_CLIENT_SECRET

\* the string has no character other than blanks
OnlyBlanks(s) == \A i \in 1..Len(s) : SubSeq(s, i, i) = " "

\* C18 amended: the provider record has a clientSecret if and only if the
\* configured one is defined and has a character that is not white space, and
\* then it is the configured value unchanged (not trimmed); otherwise the field
\* is absent, never an empty or blank string.
C18_ClientSecretForwarded ==
  Loaded
    => /\ Has(provider, "clientSecret")
            <=> (Has(env, "OIDC_CLIENT_SECRET") /\ ~OnlyBlanks(env.OIDC_CLIENT_SECRET))
       /\ Has(provider, "clientSecret")
            => /\ provider.clientSecret = env.OIDC_CLIENT_SECRET
               /\ ~OnlyBlanks(provider.clientSecret)

C18_Witness ==
  /\ Loaded
  /\ Has(provider, "clientSecret") /\ provider.clientSecret = " s3cret "
  /\ provider.authorization.params.code_challenge_method = "S256"

\* C19 as stated: the process never serves requests with the issuer or the
\* client identifier missing from the configuration.
C19_FailFast ==
  Loaded => Has(env, "OIDC_ISSUER") /\ Has(env, "OIDC_CLIENT_ID")

\* C20 as stated: the fallback is never the effective signing secret in
\* production, and every startup in which it is the effective secret warns.
C20_FallbackGuarded ==
  Loaded
    => /\ env.NODE_ENV = "production" => nextAuthSecret # Fallback
       /\ nextAuthSecret = Fallback => warned

\* a sign-in completes in this step: the only step that records a grant
SignsIn == grant' # NoGrant /\ pc' = pc /\ now' = now

\* C21: a sign-in overwrites accessToken, refreshToken, idToken,
\* accessTokenExpires and user from the fresh exchange; afterwards refreshToken is
\* the account's refresh token, absent if the account has none, whatever the
\* record stored before.
C21_SignInOverwrites ==
  [][SignsIn
       => LET account == grant'.account
          IN  /\ Has(account, "refresh_token")
                   => cookie'.refreshToken = account.refresh_token
              /\ ~Has(account, "refresh_token") => ~Has(cookie', "refreshToken")
              /\ Has(account, "id_token") => cookie'.idToken = account.id_token
              /\ ~Has(account, "id_token") => ~Has(cookie', "idToken")
              /\ cookie'.accessToken = account.access_token
              /\ cookie'.user = grant'.user
              /\ ~Has(cookie', "error")
              /\ Has(cookie', "accessTokenExpires")
                   => /\ Has(account, "expires_at")
                      /\ cookie'.accessTokenExpires = account.expires_at * 1000]_vars

\* a sign-in without refresh token has replaced a record that had one (the view
\* still shows the access token a refresh had installed)
C21_Witness ==
  /\ grant # NoGrant /\ ~Has(grant.account, "refresh_token")
  /\ Has(view, "accessToken") /\ view.accessToken = "A2"
  /\ ~Has(cookie, "refreshToken") /\ cookie.accessToken = "A1"

Built == provider # NoProvider

\* C23 as stated: for every configuration passed to createOidcProvider, also
\* one with authorization params of its own, the provider's authorization params
\* have code_challenge_method = S256 and a scope that includes openid.
C23_PkceAndOpenid ==
  Built
    => /\ provider.authorization.params.code_challenge_method = "S256"
       /\ Contains(provider.authorization.params.scope, "openid")

\* C24: once the stored record carries error = RefreshAccessTokenError, every
\* later read, whether a cache hit, a failed refresh or a successful refresh,
\* returns and stores a record that still carries it, so the client view can
\* report the error while it holds a valid token.
C24_ErrorSticky ==
  [][\A r \in Readers :
       /\ StartsRead(r) /\ Has(cookie, "error")
            => IF pc'[r] = "done" THEN Has(out'[r], "error") ELSE Has(tok'[r], "error")
       /\ Answered(r) /\ Has(tok[r], "error")
            => Has(out'[r], "error") /\ out'[r].error = RefreshAccessTokenError
       /\ Commits(r) /\ ~threw[r] /\ Has(out[r], "error")
            => /\ Has(cookie', "error")
               /\ Has(view', "error") /\ view'.error = RefreshAccessTokenError]_vars

\* the view reports the error and holds the token a later refresh installed,
\* which has not expired
C24_Witness ==
  /\ grant = NoGrant
  /\ Has(view, "error") /\ view.error = RefreshAccessTokenError
  /\ Has(view, "accessToken") /\ view.accessToken = "A2"
  /\ cookie.accessToken = "A2" /\ Has(cookie, "error")
  /\ Before(cookie, now)

\* session read r comes to the record it returns
Returns(r) == pc[r] # "done" /\ pc'[r] = "done"

\* C26: a session read that returns a record without error returns an access
\* token that is unexpired on the clock of that moment, now < accessTokenExpires,
\* provided a successful response's expires_in is positive.
C26_NoErrorMeansUnexpired ==
  [][\A r \in Readers :
       /\ Returns(r) /\ ~Has(out'[r], "error")
       /\ IsSuccess(resp'[r]) => resp'[r].body.expires_in > 0
       => /\ Has(out'[r], "accessToken")
          /\ Has(out'[r], "accessTokenExpires")
          /\ now' < out'[r].accessTokenExpires]_vars

C26_Witness ==
  \E r \in Readers :
    /\ pc[r] = "done" /\ path[r] = "refresh" /\ IsSuccess(resp[r])
    /\ resp[r].body.expires_in > 0
    /\ ~Has(out[r], "error") /\ out[r].accessToken = "A2"
    /\ now < out[r].accessTokenExpires

\* C27: a record without accessTokenExpires is never served from the cache:
\* every read of it sends a refresh request, or, when no refresh token is
\* stored, returns the record with the error flag.
C27_NoExpiryNoCacheHit ==
  [][\A r \in Readers :
       StartsRead(r) /\ ~Has(cookie, "accessTokenExpires")
         => /\ path'[r] # "hit"
            /\ IF Present(cookie)
                 THEN pc'[r] = "awaitFetch" /\ calls'[r] = calls[r] + 1
                 ELSE /\ pc'[r] = "done" /\ calls'[r] = calls[r]
                      /\ Has(out'[r], "error")
                      /\ out'[r].error = RefreshAccessTokenError]_vars

C27_Witness ==
  /\ pc["tabA"] = "awaitFetch" /\ calls["tabA"] = 1
  /\ ~Has(tok["tabA"], "accessTokenExpires")
  /\ ~Has(cookie, "accessTokenExpires") /\ cookie.accessToken = "A1"

RefreshFields == {"accessToken", "accessTokenExpires", "refreshToken", "idToken"}

\* C28: a successful refresh changes only accessToken, accessTokenExpires,
\* refreshToken and idToken; user and every other field of the record are the
\* same before and after.
C28_RefreshFrame ==
  [][\A r \in Readers :
       Answered(r) /\ IsSuccess(resp'[r])
         => \A k \in ((DOMAIN tok[r]) \cup (DOMAIN out'[r])) \ RefreshFields :
              Same(out'[r], tok[r], k)]_vars

C28_Witness ==
  \E r \in Readers :
    /\ pc[r] = "done" /\ IsSuccess(resp[r])
    /\ out[r].accessToken = "A2" /\ out[r].refreshToken = "R2"
    /\ out[r].user = Ann /\ out[r].sub = "u1" /\ out[r].email = "ann@x"

\* C29 as stated: whenever no fetchApiData invocation is running, the page does
\* not hold both a non-null apiData and a non-null apiError, in either copy of
\* the page.
C29_DataXorError == fpc = "idle" => ~(apiData # Null /\ apiError # Null)

\* C30: every fetchApiData invocation that sets isLoading to true sets it back
\* to false, whatever the outcome of the request, so the fetch button does not
\* stay disabled.
C30_LoadingEnds == isLoading ~> ~isLoading

\* an invocation whose request failed has ended with isLoading false
C30_Witness ==
  /\ event = "fetchResponse" /\ fres.kind = "network_error"
  /\ fpc = "idle" /\ ~isLoading /\ apiError # Null

\* C25: with session reads one after another, the refresh_token of every
\* refresh request is the refresh token the provider supplied last, at the
\* sign-in or in a later successful response that held one; failed refreshes and
\* responses without refresh_token do not change it.
C25_SendsLatestRefreshToken ==
  pc[Reader] = "awaitFetch"
    => RefreshRequest(env, tok[Reader]).body.refresh_token = supplied

\* a request carries the rotated refresh token, after a failed refresh
C25_Witness ==
  /\ pc[Reader] = "awaitFetch"
  /\ supplied = "R2" /\ tok[Reader].refreshToken = "R2"
  /\ Has(tok[Reader], "error") /\ tok[Reader].accessToken = "A2"

====
